---- MODULE Spec2Model ----
(***************************************************************************)
(* Model of src/src/components/map.tsx: the Map component's React state,   *)
(* its event handlers, and the reverse-geocoding helpers.                  *)
(*                                                                         *)
(* Event handlers of the latest render read the current state.  addPin is  *)
(* the one handler that suspends (await getAddress): everything it uses    *)
(* after the await comes from the closure of the render in which the       *)
(* Create button was clicked, so the model keeps that closure in `request` *)
(* until the fetch settles.                                                *)
(*                                                                         *)
(* An element takes events while the component renders it: the map and the *)
(* popups of the stored pins always, a modal's inputs and buttons while    *)
(* its flag is set, a button only while it is not disabled.  Neither modal *)
(* takes the map or the popups out of the tree.                            *)
(***************************************************************************)
EXTENDS Integers, Sequences, FiniteSets, TLC

VARIABLES
    pins,              \* useState<Pin[]>([])
    showModal,         \* create modal flag
    pendingPin,        \* {lat, lng} | null
    pinTitle,          \* form fields shared by both modals
    pinDescription,
    pinCategory,
    isLoadingAddress,  \* loading flag
    editingPin,        \* Pin | null
    showEditModal,     \* edit modal flag
    request,           \* the suspended addPin call: its closure and the fetch's status
    last               \* history: the submit, cancel or completion handled last, or "other"

vars == <<pins, showModal, pendingPin, pinTitle, pinDescription, pinCategory,
          isLoadingAddress, editingPin, showEditModal, request, last>>

\* the program's state: everything but the history variable
state == <<pins, showModal, pendingPin, pinTitle, pinDescription, pinCategory,
           isLoadingAddress, editingPin, showEditModal, request>>

-----------------------------------------------------------------------------
\* Bounds

MaxPins == 2        \* pins in the store
MaxNow == 2         \* readings of Date.now(): 1..MaxNow
MaxTitleLen == 2    \* characters typed into the title input,
MaxTitleLetters == 1    \* of which are not spaces
MaxDescLen == 1     \* characters typed into the description textarea,
MaxDescLetters == 0     \* of which are not spaces
NumCategories == 2  \* options of the select that are exercised
MaxNameLen == 5     \* characters of display_name in AddrSpec

-----------------------------------------------------------------------------
\* Values

Null == [null |-> TRUE]

PinCategory == {"restaurant", "bar", "beach", "travel", "activity"}
CategoryOptions == <<"restaurant", "bar", "beach", "travel", "activity">>
CategoryInputs == {CategoryOptions[i] : i \in 1..NumCategories}

Chars == {"a", " "}
NameChars == {"a", ",", " "}

RECURSIVE SeqsOfLen(_, _)
SeqsOfLen(S, n) ==
    IF n = 0 THEN {<<>>}
    ELSE {Append(s, c) : s \in SeqsOfLen(S, n - 1), c \in S}

SeqsUpTo(S, n) == UNION {SeqsOfLen(S, k) : k \in 0..n}

Letters(s) == Cardinality({i \in 1..Len(s) : s[i] # " "})

TextInputs(n, k) == {s \in SeqsUpTo(Chars, n) : Letters(s) <= k}

TitleInputs == TextInputs(MaxTitleLen, MaxTitleLetters)
DescriptionInputs == TextInputs(MaxDescLen, MaxDescLetters)

\* Date.now() is the wall clock: two readings may be equal
Times == 1..MaxNow

\* map clicks: e.latlng
Coords == {[lat |-> -90, lng |-> 180], [lat |-> 43, lng |-> -79]}

-----------------------------------------------------------------------------
\* String functions of the JavaScript runtime, on sequences of characters

Truthy(s) == Len(s) > 0

IsSpace(c) == c = " "

RECURSIVE trimStart(_)
trimStart(s) ==
    IF Len(s) > 0 /\ IsSpace(Head(s)) THEN trimStart(Tail(s)) ELSE s

RECURSIVE trimEnd(_)
trimEnd(s) ==
    IF Len(s) > 0 /\ IsSpace(s[Len(s)])
    THEN trimEnd(SubSeq(s, 1, Len(s) - 1))
    ELSE s

trim(s) == trimEnd(trimStart(s))

\* index of the first occurrence of c in s, 0 when there is none
IndexOf(s, c) ==
    IF \E i \in 1..Len(s) : s[i] = c
    THEN CHOOSE i \in 1..Len(s) : s[i] = c /\ \A j \in 1..(i - 1) : s[j] # c
    ELSE 0

RECURSIVE split(_, _)
split(s, sep) ==
    LET i == IndexOf(s, sep)
    IN  IF i = 0 THEN <<s>>
        ELSE <<SubSeq(s, 1, i - 1)>> \o split(SubSeq(s, i + 1, Len(s)), sep)

slice(a, from, to) ==
    SubSeq(a, from + 1, IF to < Len(a) THEN to ELSE Len(a))

RECURSIVE join(_, _)
join(parts, sep) ==
    IF Len(parts) = 0 THEN <<>>
    ELSE IF Len(parts) = 1 THEN parts[1]
    ELSE parts[1] \o sep \o join(Tail(parts), sep)

-----------------------------------------------------------------------------
\* Reverse geocoding

GoogleMapsUrl == "https://www.google.com/maps"
AddressNotFound ==
    <<"A", "d", "d", "r", "e", "s", "s", " ",
      "n", "o", "t", " ", "f", "o", "u", "n", "d">>

\* join(',') keeps the separator the components came with
createAddressLinkCommaJoin(address, lat, lng) ==
    LET parts == split(address, ",")
        shortAddress == trim(join(slice(parts, 0, 2), <<",">>))
    IN  [url |-> GoogleMapsUrl, q |-> <<lat, lng>>, text |-> shortAddress]

\* the anchor: href = url?q=lat,lng, and its visible text
createAddressLink(address, lat, lng) ==
    LET parts == split(address, ",")
        shortAddress == trim(join(slice(parts, 0, 2), <<" ">>))
    IN  [url |-> GoogleMapsUrl, q |-> <<lat, lng>>, text |-> shortAddress]

HasDisplayName(data) == "display_name" \in DOMAIN data

\* the part of getAddress after the response body has been parsed
getAddressNoFallback(data, lat, lng) ==
    LET address == IF HasDisplayName(data) THEN data.display_name ELSE <<>>
    IN  createAddressLink(address, lat, lng)

getAddress(data, lat, lng) ==
    LET address == IF HasDisplayName(data) /\ Truthy(data.display_name)
                   THEN data.display_name
                   ELSE AddressNotFound
    IN  createAddressLink(address, lat, lng)

\* response bodies of the geocoding service
NoDisplayName == [error |-> "Unable to geocode"]
SampleName == <<"a", ",", " ", "a", ",", "a">>
MainStreet ==
    <<"1", "2", "3", " ", "M", "a", "i", "n", " ", "S", "t", ",", " ",
      "S", "p", "r", "i", "n", "g", "f", "i", "e", "l", "d", ",", " ",
      "S", "o", "m", "e", " ", "C", "o", "u", "n", "t", "y", ",", " ",
      "C", "o", "u", "n", "t", "r", "y">>

Responses == {[display_name |-> SampleName]}

AddrResponses ==
    {NoDisplayName, [display_name |-> MainStreet]}
        \cup {[display_name |-> d] : d \in SeqsUpTo(NameChars, MaxNameLen)}

-----------------------------------------------------------------------------
\* Initial state: useState defaults

Init ==
    /\ pins = <<>>
    /\ showModal = FALSE
    /\ pendingPin = Null
    /\ pinTitle = <<>>
    /\ pinDescription = <<>>
    /\ pinCategory = "restaurant"
    /\ isLoadingAddress = FALSE
    /\ editingPin = Null
    /\ showEditModal = FALSE
    /\ request = Null
    /\ last = [op |-> "other"]

-----------------------------------------------------------------------------
\* Handlers

Range(f) == {f[i] : i \in DOMAIN f}

Other == [op |-> "other"]

FormDefault ==
    /\ pinTitle = <<>>
    /\ pinDescription = <<>>
    /\ pinCategory = "restaurant"

\* some field of the form differs from its default
FormDirty == ~FormDefault

ResetForm ==
    /\ pinTitle' = <<>>
    /\ pinDescription' = <<>>
    /\ pinCategory' = "restaurant"

\* click on the map: opens the create modal
handleMapClick(lat, lng) ==
    /\ pendingPin' = [lat |-> lat, lng |-> lng]
    /\ showModal' = TRUE
    /\ ResetForm
    /\ UNCHANGED <<pins, isLoadingAddress, editingPin, showEditModal, request>>
    /\ last' = Other

\* onChange of the title input, the description textarea and the select,
\* which either modal renders
setPinTitle(value) ==
    /\ showModal \/ showEditModal
    /\ pinTitle' = value
    /\ UNCHANGED <<pins, showModal, pendingPin, pinDescription, pinCategory,
                   isLoadingAddress, editingPin, showEditModal, request>>
    /\ last' = Other

setPinDescription(value) ==
    /\ showModal \/ showEditModal
    /\ pinDescription' = value
    /\ UNCHANGED <<pins, showModal, pendingPin, pinTitle, pinCategory,
                   isLoadingAddress, editingPin, showEditModal, request>>
    /\ last' = Other

setPinCategory(value) ==
    /\ showModal \/ showEditModal
    /\ pinCategory' = value
    /\ UNCHANGED <<pins, showModal, pendingPin, pinTitle, pinDescription,
                   isLoadingAddress, editingPin, showEditModal, request>>
    /\ last' = Other

\* the title check without its trim()
HasTitleUntrimmed == Truthy(pinTitle)

\* pinTitle.trim(), as a condition
HasTitle == Truthy(trim(pinTitle))

\* the disabled attribute without its isLoadingAddress operand
SubmitIgnoresLoading == ~HasTitle

\* disabled attribute of the Create Pin and Update Pin buttons
SubmitDisabled == ~HasTitle \/ isLoadingAddress

\* disabled attribute of both Cancel buttons
CancelDisabled == isLoadingAddress

\* addPin up to its await: the closure of the call is kept in request
addPin ==
    IF pendingPin # Null /\ HasTitle
    THEN /\ isLoadingAddress' = TRUE
         /\ request' = [status |-> "pending",
                        pins |-> pins,
                        pendingPin |-> pendingPin,
                        pinTitle |-> pinTitle,
                        pinDescription |-> pinDescription,
                        pinCategory |-> pinCategory]
         /\ UNCHANGED <<pins, showModal, pendingPin, pinTitle, pinDescription,
                        pinCategory, editingPin, showEditModal>>
    ELSE UNCHANGED state

\* click on Create Pin; a disabled button dispatches nothing.  A create is
\* started while the store holds fewer than cap pins.
CreatePinClick(cap) ==
    /\ showModal
    /\ IF SubmitDisabled
       THEN UNCHANGED state /\ last' = [op |-> "createIgnored"]
       ELSE Len(pins) < cap /\ addPin /\ last' = Other

CreatePinButton == CreatePinClick(MaxPins)

Pending == request # Null /\ request.status = "pending"

\* newPin without the trim of the title
newPinUntrimmed(id, address) ==
    [id |-> id, lat |-> request.pendingPin.lat, lng |-> request.pendingPin.lng,
     title |-> request.pinTitle, description |-> trim(request.pinDescription),
     category |-> request.pinCategory, address |-> address]

\* the pin addPin builds after the await, from its closure; id is Date.now()
newPin(id, address) ==
    [id |-> id,
     lat |-> request.pendingPin.lat,
     lng |-> request.pendingPin.lng,
     title |-> trim(request.pinTitle),
     description |-> trim(request.pinDescription),
     category |-> request.pinCategory,
     address |-> address]

\* the fetch and response.json() resolve with body data: addPin resumes
GeocodeResolve(data, t) ==
    /\ Pending
    /\ LET address == getAddress(data, request.pendingPin.lat, request.pendingPin.lng)
       IN  pins' = Append(request.pins, newPin(t, address))
    /\ showModal' = FALSE
    /\ pendingPin' = Null
    /\ ResetForm
    /\ isLoadingAddress' = FALSE
    /\ request' = Null
    /\ UNCHANGED <<editingPin, showEditModal>>
    /\ last' = [op |-> "addPinResolved", data |-> data]

\* the fetch or response.json() rejects: the await throws and addPin ends
GeocodeReject ==
    /\ Pending
    /\ request' = [status |-> "failed"]
    /\ UNCHANGED <<pins, showModal, pendingPin, pinTitle, pinDescription,
                   pinCategory, isLoadingAddress, editingPin, showEditModal>>
    /\ last' = Other

cancelPinKeepForm ==
    /\ showModal' = FALSE
    /\ pendingPin' = Null
    /\ isLoadingAddress' = FALSE
    /\ UNCHANGED <<pins, pinTitle, pinDescription, pinCategory,
                   editingPin, showEditModal, request>>

cancelPin ==
    /\ showModal' = FALSE
    /\ pendingPin' = Null
    /\ ResetForm
    /\ isLoadingAddress' = FALSE
    /\ UNCHANGED <<pins, editingPin, showEditModal, request>>

CancelPinButton ==
    /\ showModal
    /\ ~CancelDisabled
    /\ cancelPin
    /\ last' = [op |-> "cancelPin", dirty |-> FormDirty]

\* Delete in a popup, and the answer given to window.confirm; pinId ranges
\* over every id, in the store or not
deletePin(pinId, confirmed) ==
    /\ IF confirmed
       THEN pins' = SelectSeq(pins, LAMBDA pin : pin.id # pinId)
       ELSE pins' = pins
    /\ UNCHANGED <<showModal, pendingPin, pinTitle, pinDescription, pinCategory,
                   isLoadingAddress, editingPin, showEditModal, request>>
    /\ last' = Other

\* Edit in the popup of a rendered pin
editPin(pin) ==
    /\ editingPin' = pin
    /\ pinTitle' = pin.title
    /\ pinDescription' = pin.description
    /\ pinCategory' = pin.category
    /\ showEditModal' = TRUE
    /\ UNCHANGED <<pins, showModal, pendingPin, isLoadingAddress, request>>
    /\ last' = Other

updatedPin ==
    [editingPin EXCEPT !.title = trim(pinTitle),
                       !.description = trim(pinDescription),
                       !.category = pinCategory]

\* some pin of the store has the id of the pin under edit
EditedPinInStore ==
    editingPin # Null /\ \E i \in DOMAIN pins : pins[i].id = editingPin.id

\* updatePin that adds the updated pin when no pin of the store has its id
updatePinUpsert ==
    IF editingPin # Null /\ HasTitle
    THEN /\ pins' = IF EditedPinInStore
                    THEN [i \in DOMAIN pins |->
                             IF pins[i].id = editingPin.id THEN updatedPin ELSE pins[i]]
                    ELSE Append(pins, updatedPin)
         /\ showEditModal' = FALSE
         /\ editingPin' = Null
         /\ ResetForm
         /\ isLoadingAddress' = FALSE
         /\ UNCHANGED <<showModal, pendingPin, request>>
    ELSE UNCHANGED state

\* updatePin that takes the edited pin out and puts its copy at the end
updatePinMoveToEnd ==
    IF editingPin # Null /\ HasTitle
    THEN /\ pins' = Append(SelectSeq(pins, LAMBDA pin : pin.id # editingPin.id),
                           updatedPin)
         /\ showEditModal' = FALSE
         /\ editingPin' = Null
         /\ ResetForm
         /\ isLoadingAddress' = FALSE
         /\ UNCHANGED <<showModal, pendingPin, request>>
    ELSE UNCHANGED state

\* updatePin without its closing setIsLoadingAddress(false)
updatePinLeavesLoading ==
    IF editingPin # Null /\ HasTitle
    THEN /\ pins' = [i \in DOMAIN pins |->
                        IF pins[i].id = editingPin.id THEN updatedPin ELSE pins[i]]
         /\ showEditModal' = FALSE
         /\ editingPin' = Null
         /\ ResetForm
         /\ isLoadingAddress' = TRUE
         /\ UNCHANGED <<showModal, pendingPin, request>>
    ELSE UNCHANGED state

\* updatePin has no await: it runs to its end within the click
updatePin ==
    IF editingPin # Null /\ HasTitle
    THEN /\ pins' = [i \in DOMAIN pins |->
                        IF pins[i].id = editingPin.id THEN updatedPin ELSE pins[i]]
         /\ showEditModal' = FALSE
         /\ editingPin' = Null
         /\ ResetForm
         /\ isLoadingAddress' = FALSE
         /\ UNCHANGED <<showModal, pendingPin, request>>
    ELSE UNCHANGED state

UpdatePinButton ==
    /\ showEditModal
    /\ IF SubmitDisabled
       THEN UNCHANGED state /\ last' = [op |-> "updateIgnored"]
       ELSE /\ updatePin
            /\ last' = [op |-> "updatePin", matched |-> EditedPinInStore]

\* cancelEdit that keeps the pin under edit
cancelEditKeepPin ==
    /\ showEditModal' = FALSE
    /\ ResetForm
    /\ isLoadingAddress' = FALSE
    /\ UNCHANGED <<pins, showModal, pendingPin, request, editingPin>>

cancelEdit ==
    /\ showEditModal' = FALSE
    /\ editingPin' = Null
    /\ ResetForm
    /\ isLoadingAddress' = FALSE
    /\ UNCHANGED <<pins, showModal, pendingPin, request>>

CancelEditButton ==
    /\ showEditModal
    /\ ~CancelDisabled
    /\ cancelEdit
    /\ last' = [op |-> "cancelEdit", dirty |-> FormDirty]

-----------------------------------------------------------------------------
\* Specifications

MapClick == \E c \in Coords : handleMapClick(c.lat, c.lng)
TypeTitle == \E v \in TitleInputs : setPinTitle(v)
TypeDescription == \E v \in DescriptionInputs : setPinDescription(v)
SelectCategory == \E v \in CategoryInputs : setPinCategory(v)
Resolve == \E data \in Responses, t \in Times : GeocodeResolve(data, t)
DeleteClick == \E pinId \in Times, confirmed \in BOOLEAN : deletePin(pinId, confirmed)
EditClick == \E pin \in Range(pins) : editPin(pin)

Next ==
    \/ MapClick
    \/ TypeTitle
    \/ TypeDescription
    \/ SelectCategory
    \/ CreatePinButton
    \/ Resolve
    \/ GeocodeReject
    \/ CancelPinButton
    \/ DeleteClick
    \/ EditClick
    \/ UpdatePinButton
    \/ CancelEditButton

Spec == Init /\ [][Next]_vars

\* A pending request is eventually settled, one way or the other
FairSpec == Spec /\ WF_vars(Resolve \/ GeocodeReject)

\* The create flow alone, over every display_name of up to MaxNameLen
\* characters
AddrCreate == CreatePinClick(1)
AddrResolve == \E data \in AddrResponses, t \in Times : GeocodeResolve(data, t)

AddrNext ==
    \/ MapClick
    \/ TypeTitle
    \/ AddrCreate
    \/ AddrResolve

AddrSpec == Init /\ [][AddrNext]_vars

-----------------------------------------------------------------------------
\* Properties

Failed == request # Null /\ request.status = "failed"

\* a string that is empty or holds spaces only
IsBlank(s) == \A i \in 1..Len(s) : s[i] = " "

\* the pin a completed create has just appended
Created == pins[Len(pins)]

\* a create flow has just completed
JustResolved == last.op = "addPinResolved"

\* C1: a create flow that resolves leaves the store with exactly one pin more
\* than before: the pins it held are all still there, unchanged, and the new
\* pin is appended with the coordinates, trimmed title and description and
\* category the form had at submit, and an address.
C1_CreateAppendsOnePin ==
    [][Resolve =>
          /\ Len(pins') = Len(pins) + 1
          /\ SubSeq(pins', 1, Len(pins)) = pins
          /\ LET pin == pins'[Len(pins')]
             IN  /\ pin.lat = request.pendingPin.lat
                 /\ pin.lng = request.pendingPin.lng
                 /\ pin.title = trim(request.pinTitle)
                 /\ pin.description = trim(request.pinDescription)
                 /\ pin.category = request.pinCategory
                 /\ pin.address # Null]_vars

\* C2: no store mutation is lost under interleaving: a pin that was deleted
\* (or replaced by an edit) while the create's request was pending is not in
\* the store after the create completes.
C2_NoMutationLost ==
    [][Resolve =>
          \A pin \in Range(request.pins) :
              pin \notin Range(pins) => pin \notin Range(pins')]_vars

\* the loading flag is cleared, and the create modal, if open, has its
\* Cancel button enabled and its Create Pin button enabled for a title
Recovered == ~isLoadingAddress /\ (showModal => ~CancelDisabled)

\* C3: after the geocoding request of a create flow fails, the flow eventually
\* reaches a state in which the loading flag is cleared and the modal is
\* actionable or closed.
C3_FailureIsRecoverable == Failed ~> Recovered

\* Once the request has failed nothing clears the loading flag: the user's
\* events cannot get the flow out of the failed state either.
FailureIsPermanent == [][Failed => (Failed' /\ isLoadingAddress')]_vars

\* C4: the create modal and the edit modal are never open together.
C4_ModalsExclusive == ~(showModal /\ showEditModal)

\* a click on Update Pin that the button dispatches
EditCompletes == showEditModal /\ ~SubmitDisabled /\ editingPin # Null /\ updatePin

\* C5: a completed edit changes at most the one pin that is edited, and that
\* pin keeps its id, latitude, longitude and address; every other pin is
\* unchanged.
C5_EditChangesOnePin ==
    [][EditCompletes =>
          /\ Len(pins') = Len(pins)
          /\ Cardinality({i \in DOMAIN pins : pins'[i] # pins[i]}) <= 1
          /\ \A i \in DOMAIN pins :
                /\ pins'[i].id = pins[i].id
                /\ pins'[i].lat = pins[i].lat
                /\ pins'[i].lng = pins[i].lng
                /\ pins'[i].address = pins[i].address]_vars

\* s without its k-th element
RemoveAt(s, k) == SubSeq(s, 1, k - 1) \o SubSeq(s, k + 1, Len(s))

\* C6: a confirmed delete of an id in the store removes exactly the pin with
\* that id, every other pin staying as it was; a delete of an id not in the
\* store, or one that is not confirmed, leaves the store as it was.
C6_DeleteRemovesOnePin ==
    [][\A pinId \in Times, confirmed \in BOOLEAN :
          deletePin(pinId, confirmed) =>
              IF confirmed /\ \E i \in DOMAIN pins : pins[i].id = pinId
              THEN \E k \in DOMAIN pins :
                      pins[k].id = pinId /\ pins' = RemoveAt(pins, k)
              ELSE pins' = pins]_vars

\* C7: a submit of either modal while the title is empty or holds spaces only
\* changes nothing: the store, the request, the modal flags and the form are
\* as before.
C7_BlankSubmitIsInert ==
    [][(IsBlank(pinTitle) /\ (CreatePinButton \/ UpdatePinButton)) =>
          UNCHANGED state]_vars

C7_Witness ==
    /\ last.op = "createIgnored"
    /\ showModal
    /\ ~isLoadingAddress
    /\ Len(pinTitle) > 0
    /\ IsBlank(pinTitle)

\* C8: a cancel of either modal leaves the store as it was, closes that
\* modal, clears the pending coordinates (create) or the pin under edit
\* (edit), and leaves the form at its defaults.
C8_CancelResets ==
    [][/\ CancelPinButton =>
             pins' = pins /\ ~showModal' /\ pendingPin' = Null /\ FormDefault'
       /\ CancelEditButton =>
             pins' = pins /\ ~showEditModal' /\ editingPin' = Null /\ FormDefault']_vars

C8_Witness ==
    /\ last = [op |-> "cancelPin", dirty |-> TRUE]
    /\ Len(pins) > 0
    /\ ~showModal
    /\ FormDefault

\* index of the n-th occurrence of c in s, 0 when there are fewer
NthIndexOf(s, c, n) ==
    LET hits == {i \in 1..Len(s) : s[i] = c}
    IN  IF Cardinality(hits) < n THEN 0
        ELSE CHOOSE i \in hits : Cardinality({j \in hits : j <= i}) = n

\* the text from position from to just before position to (to the end when
\* to is 0)
Between(s, from, to) == SubSeq(s, from, IF to = 0 THEN Len(s) ELSE to - 1)

\* the first two comma-separated components of s, as they stand in s
FirstTwoWithComma(s) == Between(s, 1, NthIndexOf(s, ",", 2))

\* the first two comma-separated components of s, a space in place of the comma
FirstTwoWithSpace(s) ==
    LET c1 == NthIndexOf(s, ",", 1)
        c2 == NthIndexOf(s, ",", 2)
    IN  IF c1 = 0 THEN s
        ELSE Between(s, 1, c1) \o <<" ">> \o Between(s, c1 + 1, c2)

\* a create flow has just completed on a response with a display_name
ResolvedWithName ==
    /\ JustResolved
    /\ HasDisplayName(last.data)
    /\ Truthy(last.data.display_name)

LinksToPin(pin) ==
    pin.address.url = GoogleMapsUrl /\ pin.address.q = <<pin.lat, pin.lng>>

\* C9 as stated: the visible text of the address is the first two components
\* of display_name as they appear there, the comma between them kept, and
\* the link is maps?q=<lat>,<lng> of the pin.
C9_TextKeepsComma ==
    ResolvedWithName =>
        /\ Created.address.text = trim(FirstTwoWithComma(last.data.display_name))
        /\ LinksToPin(Created)

\* C9, amended: the visible text is the first two components joined by one
\* space in place of the comma, then trimmed; the link is as stated.
C9_TextJoinsWithSpace ==
    ResolvedWithName =>
        /\ Created.address.text = trim(FirstTwoWithSpace(last.data.display_name))
        /\ LinksToPin(Created)

MainStreetShort ==
    <<"1", "2", "3", " ", "M", "a", "i", "n", " ", "S", "t", " ", " ",
      "S", "p", "r", "i", "n", "g", "f", "i", "e", "l", "d">>

C9_Witness ==
    /\ JustResolved
    /\ last.data = [display_name |-> MainStreet]
    /\ Created.address.text = MainStreetShort
    /\ Created.lat = -90

\* C10: on a response without display_name the create flow completes and the
\* visible text of the stored address is "Address not found".
C10_FallbackText ==
    (JustResolved /\ ~HasDisplayName(last.data)) =>
        /\ Len(pins) > 0
        /\ Created.address.text = AddressNotFound
        /\ ~showModal
        /\ request = Null
        /\ ~isLoadingAddress

C10_Witness ==
    /\ JustResolved
    /\ last.data = NoDisplayName
    /\ Created.address.text = AddressNotFound

\* the ids of the pins of a store, in store order
Ids(store) == [i \in DOMAIN store |-> store[i].id]

\* no two positions of the store hold the same id
IdsUnique(store) ==
    \A i, j \in DOMAIN store : i # j => store[i].id # store[j].id

\* C11: no two pins in the store have the same id, and no operation changes
\* the id of a pin that stays in the store: an edit leaves every id at its
\* position, and a delete only takes ids away.
C11_IdsUniqueAndFixed ==
    [][/\ IdsUnique(pins')
       /\ EditCompletes => Ids(pins') = Ids(pins)
       /\ DeleteClick => Range(Ids(pins')) \subseteq Range(Ids(pins))]_vars

\* the part of C11 that does not depend on the clock: ids are never rewritten
IdsFixed ==
    [][/\ EditCompletes => Ids(pins') = Ids(pins)
       /\ DeleteClick => Range(Ids(pins')) \subseteq Range(Ids(pins))]_vars

\* a title as the store must hold it: not empty, no space at either end
TitleStored(t) == Len(t) > 0 /\ ~IsSpace(t[1]) /\ ~IsSpace(t[Len(t)])

\* C12: every pin in the store has a title that is not empty and has no
\* leading or trailing space, whatever creates and edits have run.
C12_TitlesTrimmed == \A i \in DOMAIN pins : TitleStored(pins[i].title)

C12_Witness ==
    /\ JustResolved
    /\ Len(pins) = MaxPins
    /\ \A i \in DOMAIN pins : pins[i].title = <<"a">>

\* C13: at most one geocoding request is in flight: while the request of a
\* create is pending the loading flag is true, the submit and cancel buttons
\* of both modals are disabled, and a click on either submit button changes
\* nothing, so the pending request is the only one until it settles.
C13_OneRequestInFlight ==
    [][Pending =>
          /\ isLoadingAddress
          /\ SubmitDisabled
          /\ CancelDisabled
          /\ (CreatePinButton \/ UpdatePinButton) => UNCHANGED state
          /\ Pending' => request' = request]_vars

C13_Witness ==
    /\ Pending
    /\ last.op = "createIgnored"
    /\ showModal
    /\ showEditModal
    /\ HasTitle

\* the modal state of the component: pending coordinates, form, pin under
\* edit and the two modal flags
modalState ==
    <<pendingPin, pinTitle, pinDescription, pinCategory,
      editingPin, showModal, showEditModal>>

\* C14: while the request of a create is pending no modal state changes:
\* the pending coordinates, the form, the pin under edit and both modal flags
\* keep their submit-time values until the request settles.
C14_NoReentrantTransition ==
    [][(Pending /\ Pending') =>
          /\ UNCHANGED modalState
          /\ pendingPin = request.pendingPin
          /\ pinTitle = request.pinTitle
          /\ pinDescription = request.pinDescription
          /\ pinCategory = request.pinCategory]_vars

\* C15: whenever the edit modal is open the pin under edit is one whose id
\* is in the store; a delete of that pin does not leave the modal open on it.
C15_EditedPinInStore == showEditModal => EditedPinInStore

\* C16: a submit of the edit modal for a pin whose id is no longer in the
\* store leaves the store as it was, closes the edit modal and resets the
\* form; the create modal and the request are not touched.
C16_EditOfMissingPinIsNoOp ==
    [][(EditCompletes /\ ~EditedPinInStore) =>
          /\ pins' = pins
          /\ ~showEditModal'
          /\ editingPin' = Null
          /\ FormDefault'
          /\ ~isLoadingAddress'
          /\ UNCHANGED <<showModal, pendingPin, request>>]_vars

C16_Witness ==
    /\ last = [op |-> "updatePin", matched |-> FALSE]
    /\ ~showEditModal
    /\ FormDefault
    /\ Len(pins) > 0

\* C17: whenever neither modal is open there are no pending coordinates and
\* no pin under edit, the form is at its defaults and the loading flag is
\* false.
C17_ClosedMeansClean ==
    (~showModal /\ ~showEditModal) =>
        /\ pendingPin = Null
        /\ editingPin = Null
        /\ FormDefault
        /\ ~isLoadingAddress

C17_Witness ==
    /\ ~showModal
    /\ ~showEditModal
    /\ last = [op |-> "cancelEdit", dirty |-> TRUE]
    /\ Len(pins) > 0
    /\ FormDefault

\* a is b with some elements left out, the others in b's order
RECURSIVE IsSubSeq(_, _)
IsSubSeq(a, b) ==
    IF a = <<>> THEN TRUE
    ELSE IF b = <<>> THEN FALSE
    ELSE IF Head(a) = Head(b) THEN IsSubSeq(Tail(a), Tail(b))
    ELSE IsSubSeq(a, Tail(b))

\* s without its last element
Front(s) == SubSeq(s, 1, Len(s) - 1)

\* the step in which the request of a create resolves and addPin runs to its end
CreateCompletes == JustResolved' /\ Resolve

C19_LoadingMeansCreateRequest ==
    /\ isLoadingAddress =>
          /\ showModal
          /\ Pending \/ Failed
          /\ Pending => request.pinTitle # <<>> /\ request.pendingPin # Null
    /\ last.op = "updatePin" => ~isLoadingAddress

C19_Witness ==
    /\ isLoadingAddress
    /\ Failed
    /\ showModal
    /\ Len(pins) > 0

====
